---- MODULE Spec2Model ----
(***************************************************************************)
(* A model of the cooperative tick scheduler of src/src/sched/sched.c.     *)
(*                                                                         *)
(* A 32-bit word (current_tick, tick_mask) is represented by the set of    *)
(* the positions of its 1 bits, so that 0 is {} and 0x00000001 is {0}:     *)
(* shifts, | and & are then computed bit by bit.  Pointers are the names   *)
(* of the heap cells they point to, or NULL.  Task names (short_name /     *)
(* long_name) are left out: no operation modelled here reads them.         *)
(***************************************************************************)
EXTENDS Integers, Sequences, FiniteSets, TLC

\* ------------------------------------------------------------ bounds

\* Largest value the time source of the general specifications returns.
MaxTime == 4

\* Largest number of serviced ticks followed by the unit-step specification.
MaxBoundaries == 70

\* Largest value of the time source in the clock and unit-step specifications.
ClockMaxTime == 8
UnitMaxTime == 8

\* Largest max_time and tick_period handed to Create in the create specification.
CreateMaxTime == 7

\* Largest value of the time source in the statistics specifications.
StatsMaxTime == 6

\* Largest value of the time source in the constant-time specification.
ConstMaxTime == 6

\* Executions with the same measured time after which the average is looked at.
ConstSettle == 3

\* Largest value of the time source in the catch-up specification.
CatchMaxTime == 6

\* Most ticks serviced in the statistics and traversal specifications.
StatsTicks == 3

\* ------------------------------------------------- program constants

\* sizeof(uint32_t) * 8
WordBits == 32

\* sched_alloc_context refuses max_time < 4
MinMaxTime == 4

\* max_time and tick_period of the unit test
TestMaxTime == 255
TestTickPeriod == 1

\* number of iterations of the unit test's drive loop
TestLoops == 32

NULL == "NULL"

Bits == 0 .. (WordBits - 1)

\* The heap cells malloc can hand out.
Ctxs == {"c1", "c2"}
TaskIds == {"t1", "t2", "t3"}

\* ------------------------------------------- standard task tick masks

TASK_TICK_IDLE == {}
TASK_TICK_1 == Bits
TASK_TICK_2 == {k \in Bits : k % 2 = 1}
TASK_TICK_4 == {k \in Bits : k % 4 = 2}
TASK_TICK_8 == {k \in Bits : k % 8 = 4}
TASK_TICK_16 == {k \in Bits : k % 16 = 8}
TASK_TICK_32 == {k \in Bits : k % 32 = 16}

StandardMasks ==
    {TASK_TICK_IDLE, TASK_TICK_1, TASK_TICK_2, TASK_TICK_4,
     TASK_TICK_8, TASK_TICK_16, TASK_TICK_32}

\* ------------------------------------------------------------- state

VARIABLES
    ctx,        \* heap: struct sched_ctx cells
    task,       \* heap: struct sched_task cells
    now,        \* the value the time source returns (the test's `now`)
    clockMax,   \* the largest value the time source returns before wrapping
    count,      \* the call counters the task hints point to (the test's tick_*_count)
    last,       \* the last operation performed: its name, arguments, result and
                \* what the scheduler executed during it
    bad,        \* TRUE once an operation has read or written a freed cell
    sinceTick,  \* Drive calls since the last serviced tick (unit-step driver)
    boundaries, \* ticks serviced so far (unit-step driver)
    loop_i,     \* the unit test's loop counter i, or -1 outside the test
    info,       \* the caller's struct sched_task_info and the result of the last
                \* sched_get_*_task_info call on it
    yielded,    \* the tasks the current traversal has reported, in order
    fixedDur,   \* the execution time every callback takes from now on, or -1
    sameRuns,   \* executions measured fixedDur in a row, counted up to ConstSettle
    stillFrom,  \* last_tick_time when the clock last moved or the ticks restarted, or -1
    caughtUp    \* ticks serviced since then
                \* while callbacks take any time

vars == <<ctx, task, now, clockMax, count, last, bad, sinceTick, boundaries, loop_i, info, yielded, fixedDur, sameRuns, stillFrom, caughtUp>>

\* A cell that is not allocated.
NoCtx ==
    [live |-> FALSE, current_tick |-> {}, last_tick_time |-> 0,
     tick_period |-> 0, max_time |-> 0, root |-> NULL]

NoTask ==
    [live |-> FALSE, ctx |-> NULL, next |-> NULL, tick_mask |-> {},
     hint |-> NULL, average_time |-> 0, max_time |-> 0]

\* A struct sched_task_info no call has filled yet.  ok is the result of the
\* last call on it and of the task whose data it holds.
\* A struct sched_task_info no call has filled. The name of a task is the
\* name given when it was registered; the model writes the task for it.
NoInfo ==
    [iter |-> NULL, name |-> NULL, average_time |-> 0, max_time |-> 0]

\* ------------------------------------------------- time arithmetic
\* timermath is an external collaborator: modelled from its contract.

tm_get_diff(max_time, a, b) ==
    LET raw == (a - b) % (max_time + 1)
    IN IF 2 * raw > max_time + 1 THEN raw - (max_time + 1) ELSE raw

tm_offset(max_time, a, n) == (a + n) % (max_time + 1)

\* ------------------------------------------------------ bit helpers

ShiftLeft(a, n) == {k + n : k \in {j \in a : j + n < WordBits}}

ShiftRight(a, n) == {k - n : k \in {j \in a : j >= n}}

rot_left_1_no_wrap(a) == ShiftLeft(a, 1)

rot_right_1(a) == ShiftRight(a, 1) \cup ShiftLeft(a, WordBits - 1)

rot_left_1(a) == ShiftLeft(a, 1) \cup ShiftRight(a, WordBits - 1)

\* ------------------------------------------------------ task list
\* The heap operations work on a record H = [ctx, task, bad] and return the
\* heap after the call.

\* No chain of next pointers is longer than the number of task cells.
Fuel == Cardinality(TaskIds) + 1

Heap == [ctx |-> ctx, task |-> task, bad |-> bad]

RECURSIVE LastFrom(_, _, _)
LastFrom(tk, p, fuel) ==
    IF fuel = 0 \/ tk[p].next = NULL THEN p ELSE LastFrom(tk, tk[p].next, fuel - 1)

get_last_linked_task(H, c) ==
    IF H.ctx[c].root = NULL THEN NULL ELSE LastFrom(H.task, H.ctx[c].root, Fuel)

\* The cells the loop of unlink_task visits from p while looking for the
\* predecessor of t, in order.
RECURSIVE PrevWalk(_, _, _, _)
PrevWalk(tk, p, t, fuel) ==
    IF p = NULL \/ fuel = 0 THEN <<>>
    ELSE IF tk[p].next = t THEN <<p>>
    ELSE <<p>> \o PrevWalk(tk, tk[p].next, t, fuel - 1)

unlink_task_root_only(H, t) ==
    IF t = NULL THEN H
    ELSE
        LET c == H.task[t].ctx
            next == H.task[t].next
            tk1 == [H.task EXCEPT ![t].ctx = NULL, ![t].next = NULL]
            atRoot == c /= NULL /\ H.ctx[c].root = t
            cx2 == IF atRoot THEN [H.ctx EXCEPT ![c].root = next] ELSE H.ctx
        IN [ctx |-> cx2, task |-> tk1, bad |-> H.bad]

unlink_task(H, t) ==
    IF t = NULL THEN H
    ELSE
        LET c == H.task[t].ctx
            next == H.task[t].next
            tk1 == [H.task EXCEPT ![t].ctx = NULL, ![t].next = NULL]
            atRoot == c /= NULL /\ H.ctx[c].root = t
            walk == IF c = NULL \/ atRoot THEN <<>>
                    ELSE PrevWalk(tk1, H.ctx[c].root, t, Fuel)
            prev == IF walk /= <<>> /\ tk1[walk[Len(walk)]].next = t
                    THEN walk[Len(walk)] ELSE NULL
            cx2 == IF atRoot THEN [H.ctx EXCEPT ![c].root = next] ELSE H.ctx
            tk2 == IF prev /= NULL THEN [tk1 EXCEPT ![prev].next = next] ELSE tk1
            freed == \/ ~H.task[t].live
                     \/ c /= NULL /\ ~H.ctx[c].live
                     \/ \E i \in 1 .. Len(walk) : ~tk1[walk[i]].live
        IN [ctx |-> cx2, task |-> tk2, bad |-> H.bad \/ freed]

link_task_at_front(H, c, t) ==
    [ctx |-> [H.ctx EXCEPT ![c].root = t],
     task |-> [H.task EXCEPT ![t].ctx = c, ![t].next = H.ctx[c].root],
     bad |-> H.bad]

link_task(H, c, t) ==
    LET tk1 == [H.task EXCEPT ![t].ctx = c, ![t].next = NULL]
        H1 == [ctx |-> H.ctx, task |-> tk1, bad |-> H.bad]
    IN IF H.ctx[c].root = NULL
       THEN [H1 EXCEPT !.ctx[c].root = t]
       ELSE [H1 EXCEPT !.task[get_last_linked_task(H1, c)].next = t]

\* The tasks reachable from the root of c, in list order.
RECURSIVE ChainFrom(_, _, _)
ChainFrom(tk, p, fuel) ==
    IF p = NULL \/ fuel = 0 THEN <<>>
    ELSE <<p>> \o ChainFrom(tk, tk[p].next, fuel - 1)

ListOf(c) == ChainFrom(task, ctx[c].root, Fuel)

Range(s) == {s[i] : i \in 1 .. Len(s)}

\* ------------------------------------------------ context lifetime

\* mem is what malloc returns: a free cell, or NULL.
sched_alloc_context_no_upper_check(H, max_time, tick_period, mem) ==
    IF (max_time < MinMaxTime) \/ (tick_period < 1) \/ (tick_period > (max_time \div 2))
    THEN [heap |-> H, ret |-> NULL]
    ELSE IF mem = NULL THEN [heap |-> H, ret |-> NULL]
    ELSE [heap |-> [H EXCEPT !.ctx[mem] =
                        [live |-> TRUE, current_tick |-> {}, last_tick_time |-> 0,
                         tick_period |-> tick_period, max_time |-> max_time,
                         root |-> NULL]],
          ret |-> mem]

sched_alloc_context(H, max_time, tick_period, mem) ==
    IF (max_time < MinMaxTime) \/ (tick_period < 1) \/ (tick_period >= (max_time \div 2))
    THEN [heap |-> H, ret |-> NULL]
    ELSE IF mem = NULL THEN [heap |-> H, ret |-> NULL]
    ELSE [heap |-> [H EXCEPT !.ctx[mem] =
                        [live |-> TRUE, current_tick |-> {}, last_tick_time |-> 0,
                         tick_period |-> tick_period, max_time |-> max_time,
                         root |-> NULL]],
          ret |-> mem]

RECURSIVE UnlinkAll(_, _, _)
UnlinkAll(H, c, fuel) ==
    IF H.ctx[c].root = NULL \/ fuel = 0 THEN H
    ELSE UnlinkAll(unlink_task(H, H.ctx[c].root), c, fuel - 1)

sched_free_context_without_unlink(H, c) ==
    IF c = NULL THEN H ELSE [H EXCEPT !.ctx[c] = NoCtx]

sched_free_context(H, c) ==
    IF c = NULL THEN H
    ELSE [UnlinkAll(H, c, Fuel) EXCEPT !.ctx[c] = NoCtx]

sched_reset_to_first_slot(H, c) ==
    IF c = NULL THEN H ELSE [H EXCEPT !.ctx[c].current_tick = {0}]

sched_reset(H, c) ==
    IF c = NULL THEN H ELSE [H EXCEPT !.ctx[c].current_tick = {}]

\* --------------------------------------------------- task lifetime

sched_alloc_task(H, c, hint, tick_mask, mem) ==
    IF c = NULL \/ mem = NULL THEN [heap |-> H, ret |-> NULL]
    ELSE
        LET H1 == [H EXCEPT !.task[mem] =
                       [live |-> TRUE, ctx |-> NULL, next |-> NULL,
                        tick_mask |-> tick_mask, hint |-> hint,
                        average_time |-> 0, max_time |-> 0]]
        IN [heap |-> link_task(H1, c, mem), ret |-> mem]

sched_free_task(H, t) ==
    IF t = NULL THEN H
    ELSE [unlink_task(H, t) EXCEPT !.task[t] = NoTask]

RECURSIVE ResetStatsFrom(_, _, _)
ResetStatsFrom(tk, p, fuel) ==
    IF p = NULL \/ fuel = 0 THEN tk
    ELSE ResetStatsFrom([tk EXCEPT ![p].average_time = 0, ![p].max_time = 0],
                        tk[p].next, fuel - 1)

sched_reset_stats_root_only(H, c) ==
    IF c = NULL \/ H.ctx[c].root = NULL THEN H
    ELSE [H EXCEPT !.task[H.ctx[c].root].average_time = 0,
                   !.task[H.ctx[c].root].max_time = 0]

sched_reset_stats(H, c) ==
    IF c = NULL THEN H
    ELSE [H EXCEPT !.task = ResetStatsFrom(H.task, H.ctx[c].root, Fuel)]

\* ------------------------------------------------------- execution
\* The scheduler operations work on a record
\*   S = [ctx, task, bad, now, count, t0, kind, tick, ran, obs]
\* where now is the time source, count the counters behind the hints, and
\* t0, kind, tick, ran and obs record what the call did: the time it read on
\* entry, "tick" or "idle", the value of current_tick the tasks were matched
\* against, the tasks whose callback was invoked, in the order of the
\* invocations, and the execution time measured for each of them.

\* The machine when the time source stands at t.
get_task_info_iter_is_task(tk, t, inf, hasInfo) ==
    IF t /= NULL /\ hasInfo
    THEN [info |-> [iter |-> t,
                    name |-> t,
                    average_time |-> tk[t].average_time,
                    max_time |-> tk[t].max_time],
          success |-> TRUE]
    ELSE [info |-> inf, success |-> FALSE]

get_task_info(tk, t, inf, hasInfo) ==
    IF t /= NULL /\ hasInfo
    THEN [info |-> [iter |-> tk[t].next,
                    name |-> t,
                    average_time |-> tk[t].average_time,
                    max_time |-> tk[t].max_time],
          success |-> TRUE]
    ELSE [info |-> inf, success |-> FALSE]

sched_get_first_task_info(H, c, inf, hasInfo) ==
    IF c /= NULL
    THEN get_task_info(H.task, H.ctx[c].root, inf, hasInfo)
    ELSE [info |-> inf, success |-> FALSE]

sched_get_next_task_info(H, inf, hasInfo) ==
    IF hasInfo
    THEN get_task_info(H.task, inf.iter, inf, hasInfo)
    ELSE [info |-> inf, success |-> FALSE]

MachineAt(t) ==
    [ctx |-> ctx, task |-> task, bad |-> bad, now |-> t, count |-> count,
     t0 |-> t, kind |-> "none", tick |-> {}, ran |-> <<>>, obs |-> <<>>]

Machine == MachineAt(now)

\* test/sched_ut.c mock_task: counts the call when it has a hint.
mock_task(cnt, hint) ==
    IF hint /= NULL THEN [cnt EXCEPT ![hint] = @ + 1] ELSE cnt

update_task_stats_shift_2(tk, t, exec_time) ==
    IF exec_time >= 0
    THEN [tk EXCEPT ![t].average_time = (@ + exec_time) \div 4,
                    ![t].max_time = IF exec_time > @ THEN exec_time ELSE @]
    ELSE tk

update_task_stats_signed(tk, t, exec_time) ==
    [tk EXCEPT ![t].average_time = (@ + exec_time) \div 2,
               ![t].max_time = IF exec_time > @ THEN exec_time ELSE @]

update_task_stats_round_up(tk, t, exec_time) ==
    IF exec_time >= 0
    THEN [tk EXCEPT ![t].average_time = (@ + exec_time + 1) \div 2,
                    ![t].max_time = IF exec_time > @ THEN exec_time ELSE @]
    ELSE tk

update_task_stats_no_shift(tk, t, exec_time) ==
    IF exec_time >= 0
    THEN [tk EXCEPT ![t].average_time = @ + exec_time,
                    ![t].max_time = IF exec_time > @ THEN exec_time ELSE @]
    ELSE tk

update_task_stats_max_is_last(tk, t, exec_time) ==
    IF exec_time >= 0
    THEN [tk EXCEPT ![t].average_time = (@ + exec_time) \div 2,
                    ![t].max_time = exec_time]
    ELSE tk

update_task_stats(tk, t, exec_time) ==
    IF exec_time >= 0
    THEN [tk EXCEPT ![t].average_time = (@ + exec_time) \div 2,
                    ![t].max_time = IF exec_time > @ THEN exec_time ELSE @]
    ELSE tk

\* The body of both execution loops: time the callback of task p, which
\* lets the time source advance by d, and update its statistics.
run_task(S, c, p, d) ==
    LET start == S.now
        stop == (S.now + d) % (clockMax + 1)
    IN [S EXCEPT !.count = mock_task(S.count, S.task[p].hint),
                 !.now = stop,
                 !.ran = Append(S.ran, p),
                 !.obs = Append(S.obs, tm_get_diff(S.ctx[c].max_time, stop, start)),
                 !.task = update_task_stats(S.task, p,
                              tm_get_diff(S.ctx[c].max_time, stop, start))]

RECURSIVE IdleLoop(_, _, _, _, _)
IdleLoop(S, c, p, dur, fuel) ==
    IF p = NULL \/ fuel = 0 THEN S
    ELSE IF S.task[p].tick_mask = {}
         THEN IdleLoop(run_task(S, c, p, dur[p]), c, S.task[p].next, dur, fuel - 1)
         ELSE IdleLoop(S, c, S.task[p].next, dur, fuel - 1)

execute_idle_tasks(S, c, dur) ==
    IdleLoop([S EXCEPT !.kind = "idle", !.tick = S.ctx[c].current_tick],
             c, S.ctx[c].root, dur, Fuel)

RECURSIVE TickLoop(_, _, _, _, _)
TickLoop(S, c, p, dur, fuel) ==
    IF p = NULL \/ fuel = 0 THEN S
    ELSE IF (S.ctx[c].current_tick \cap S.task[p].tick_mask) /= {}
         THEN TickLoop(run_task(S, c, p, dur[p]), c, S.task[p].next, dur, fuel - 1)
         ELSE TickLoop(S, c, S.task[p].next, dur, fuel - 1)

RECURSIVE TickLoopEqual(_, _, _, _, _)
TickLoopEqual(S, c, p, dur, fuel) ==
    IF p = NULL \/ fuel = 0 THEN S
    ELSE IF S.ctx[c].current_tick = S.task[p].tick_mask
         THEN TickLoopEqual(run_task(S, c, p, dur[p]), c, S.task[p].next, dur, fuel - 1)
         ELSE TickLoopEqual(S, c, S.task[p].next, dur, fuel - 1)

execute_current_tick_equal(S, c, dur) ==
    TickLoopEqual([S EXCEPT !.kind = "tick", !.tick = S.ctx[c].current_tick],
                  c, S.ctx[c].root, dur, Fuel)

execute_current_tick(S, c, dur) ==
    TickLoop([S EXCEPT !.kind = "tick", !.tick = S.ctx[c].current_tick],
             c, S.ctx[c].root, dur, Fuel)

\* The first half of sched_run: read the clock, decide whether a tick is due
\* and move last_tick_time.
tick_decision_strict(S, c) ==
    LET t0 == S.now
        cx == S.ctx[c]
        delta == tm_get_diff(cx.max_time, t0, cx.last_tick_time)
    IN IF cx.current_tick = {}
       THEN [S |-> [S EXCEPT !.ctx[c].current_tick = {0},
                             !.ctx[c].last_tick_time = t0],
             execute_tick |-> TRUE]
       ELSE IF delta < 0
       THEN [S |-> [S EXCEPT !.ctx[c].last_tick_time = t0], execute_tick |-> TRUE]
       ELSE IF delta > cx.tick_period
       THEN [S |-> [S EXCEPT !.ctx[c].last_tick_time =
                        tm_offset(cx.max_time, cx.last_tick_time, cx.tick_period)],
             execute_tick |-> TRUE]
       ELSE [S |-> S, execute_tick |-> FALSE]

tick_decision_first_keeps_time(S, c) ==
    LET t0 == S.now
        cx == S.ctx[c]
        delta == tm_get_diff(cx.max_time, t0, cx.last_tick_time)
    IN IF cx.current_tick = {}
       THEN [S |-> [S EXCEPT !.ctx[c].current_tick = {0}], execute_tick |-> TRUE]
       ELSE IF delta < 0
       THEN [S |-> [S EXCEPT !.ctx[c].last_tick_time = t0], execute_tick |-> TRUE]
       ELSE IF delta >= cx.tick_period
       THEN [S |-> [S EXCEPT !.ctx[c].last_tick_time =
                        tm_offset(cx.max_time, cx.last_tick_time, cx.tick_period)],
             execute_tick |-> TRUE]
       ELSE [S |-> S, execute_tick |-> FALSE]

tick_decision_snaps_to_now(S, c) ==
    LET t0 == S.now
        cx == S.ctx[c]
        delta == tm_get_diff(cx.max_time, t0, cx.last_tick_time)
    IN IF cx.current_tick = {}
       THEN [S |-> [S EXCEPT !.ctx[c].current_tick = {0},
                             !.ctx[c].last_tick_time = t0],
             execute_tick |-> TRUE]
       ELSE IF delta < 0
       THEN [S |-> [S EXCEPT !.ctx[c].last_tick_time = t0], execute_tick |-> TRUE]
       ELSE IF delta >= cx.tick_period
       THEN [S |-> [S EXCEPT !.ctx[c].last_tick_time = t0], execute_tick |-> TRUE]
       ELSE [S |-> S, execute_tick |-> FALSE]

tick_decision_resync_restarts(S, c) ==
    LET t0 == S.now
        cx == S.ctx[c]
        delta == tm_get_diff(cx.max_time, t0, cx.last_tick_time)
    IN IF cx.current_tick = {} \/ delta < 0
       THEN [S |-> [S EXCEPT !.ctx[c].current_tick = {0},
                             !.ctx[c].last_tick_time = t0],
             execute_tick |-> TRUE]
       ELSE IF delta >= cx.tick_period
       THEN [S |-> [S EXCEPT !.ctx[c].last_tick_time =
                        tm_offset(cx.max_time, cx.last_tick_time, cx.tick_period)],
             execute_tick |-> TRUE]
       ELSE [S |-> S, execute_tick |-> FALSE]

tick_decision_no_resync(S, c) ==
    LET t0 == S.now
        cx == S.ctx[c]
        delta == tm_get_diff(cx.max_time, t0, cx.last_tick_time)
    IN IF cx.current_tick = {}
       THEN [S |-> [S EXCEPT !.ctx[c].current_tick = {0},
                             !.ctx[c].last_tick_time = t0],
             execute_tick |-> TRUE]
       ELSE IF delta < 0
       THEN [S |-> S, execute_tick |-> TRUE]
       ELSE IF delta >= cx.tick_period
       THEN [S |-> [S EXCEPT !.ctx[c].last_tick_time =
                        tm_offset(cx.max_time, cx.last_tick_time, cx.tick_period)],
             execute_tick |-> TRUE]
       ELSE [S |-> S, execute_tick |-> FALSE]

tick_decision_skips_missed(S, c) ==
    LET t0 == S.now
        cx == S.ctx[c]
        delta == tm_get_diff(cx.max_time, t0, cx.last_tick_time)
    IN IF cx.current_tick = {}
       THEN [S |-> [S EXCEPT !.ctx[c].current_tick = {0},
                             !.ctx[c].last_tick_time = t0],
             execute_tick |-> TRUE]
       ELSE IF delta < 0
       THEN [S |-> [S EXCEPT !.ctx[c].last_tick_time = t0], execute_tick |-> TRUE]
       ELSE IF delta >= cx.tick_period
       THEN [S |-> [S EXCEPT !.ctx[c].last_tick_time =
                        tm_offset(cx.max_time, cx.last_tick_time,
                                  (delta \div cx.tick_period) * cx.tick_period)],
             execute_tick |-> TRUE]
       ELSE [S |-> S, execute_tick |-> FALSE]

tick_decision(S, c) ==
    LET t0 == S.now
        cx == S.ctx[c]
        delta == tm_get_diff(cx.max_time, t0, cx.last_tick_time)
    IN IF cx.current_tick = {}
       THEN [S |-> [S EXCEPT !.ctx[c].current_tick = {0},
                             !.ctx[c].last_tick_time = t0],
             execute_tick |-> TRUE]
       ELSE IF delta < 0
       THEN [S |-> [S EXCEPT !.ctx[c].last_tick_time = t0], execute_tick |-> TRUE]
       ELSE IF delta >= cx.tick_period
       THEN [S |-> [S EXCEPT !.ctx[c].last_tick_time =
                        tm_offset(cx.max_time, cx.last_tick_time, cx.tick_period)],
             execute_tick |-> TRUE]
       ELSE [S |-> S, execute_tick |-> FALSE]

sched_run_tick_then_idle(S, c, dur) ==
    LET d == tick_decision(S, c)
        S2 == execute_current_tick(d.S, c, dur)
    IN execute_idle_tasks([S2 EXCEPT !.ctx[c].current_tick = rot_left_1(@)], c, dur)

sched_run(S, c, dur) ==
    LET d == tick_decision(S, c)
    IN IF d.execute_tick
       THEN LET S2 == execute_current_tick(d.S, c, dur)
            IN [S2 EXCEPT !.ctx[c].current_tick = rot_left_1(@)]
       ELSE execute_idle_tasks(d.S, c, dur)

\* ---------------------------------------------------------- actions

Op(name, c, t, a, b, ret) ==
    [op |-> name, c |-> c, t |-> t, a |-> a, b |-> b, ret |-> ret,
     kind |-> "none", tick |-> {}, ran |-> <<>>, obs |-> <<>>]

SetHeap(H) == ctx' = H.ctx /\ task' = H.task /\ bad' = H.bad

FreeCtxCells(cells) == {c \in cells : ~ctx[c].live}
LiveCtx(cells) == {c \in cells : ctx[c].live}
FreeTaskCells(cells) == {t \in cells : ~task[t].live}
LiveTasks == {t \in TaskIds : task[t].live}

\* Where the caller's task t stands in its context's list before a call, and
\* how long that list is; 0 when it is in no list.
PositionOf(t) ==
    IF t = NULL \/ task[t].ctx = NULL THEN 0
    ELSE LET L == ListOf(task[t].ctx)
         IN IF t \in Range(L) THEN CHOOSE i \in 1 .. Len(L) : L[i] = t ELSE 0

LengthAround(t) ==
    IF t = NULL \/ task[t].ctx = NULL THEN 0 ELSE Len(ListOf(task[t].ctx))

\* Create: sched_alloc_context(hint, get_time_fn, max_time, tick_period)
Create(cells, maxTimes, periods) ==
    \E mt \in maxTimes, P \in periods, mem \in FreeCtxCells(cells) \cup {NULL} :
        LET r == sched_alloc_context(Heap, mt, P, mem)
        IN /\ FreeCtxCells(cells) /= {}
           /\ SetHeap(r.heap)
           /\ last' = Op("alloc_context", NULL, NULL, mt, P, r.ret)
           /\ UNCHANGED <<now, clockMax, count, sinceTick, boundaries, loop_i, info, yielded, fixedDur, sameRuns, stillFrom, caughtUp>>

\* Destroy: sched_free_context(ctx)
Destroy(cells) ==
    \E c \in LiveCtx(cells) \cup {NULL} :
        /\ SetHeap(sched_free_context(Heap, c))
        /\ last' = Op("free_context", c, NULL, 0, 0, NULL)
        /\ UNCHANGED <<now, clockMax, count, sinceTick, boundaries, loop_i, info, yielded, fixedDur, sameRuns, stillFrom, caughtUp>>

\* Reset: sched_reset(ctx)
Reset(cells) ==
    \E c \in LiveCtx(cells) \cup {NULL} :
        /\ SetHeap(sched_reset(Heap, c))
        /\ last' = Op("reset", NULL, NULL, 0, 0, NULL)
        /\ UNCHANGED <<now, clockMax, count, sinceTick, boundaries, loop_i, info, yielded, fixedDur, sameRuns, stillFrom, caughtUp>>

\* ResetStats: sched_reset_stats(ctx)
ResetStats(cells) ==
    \E c \in LiveCtx(cells) \cup {NULL} :
        /\ SetHeap(sched_reset_stats(Heap, c))
        /\ last' = Op("reset_stats", c, NULL, 0, 0, NULL)
        /\ UNCHANGED <<now, clockMax, count, sinceTick, boundaries, loop_i, info, yielded, fixedDur, sameRuns, stillFrom, caughtUp>>

\* Register: sched_alloc_task(ctx, hint, task_fn, name, tick_mask).  With
\* counted, the hint is the address of the task's own call counter, as in the
\* unit test; otherwise it is NULL.
Register(cells, tcells, masks, counted) ==
    \E c \in LiveCtx(cells) \cup {NULL}, m \in masks,
       mem \in FreeTaskCells(tcells) \cup {NULL} :
        LET r == sched_alloc_task(Heap, c, IF counted THEN mem ELSE NULL, m, mem)
        IN /\ SetHeap(r.heap)
           /\ last' = Op("alloc_task", NULL, NULL, 0, 0, r.ret)
           /\ count' = IF counted /\ r.ret /= NULL
                       THEN [count EXCEPT ![r.ret] = 0] ELSE count
           /\ UNCHANGED <<now, clockMax, sinceTick, boundaries, loop_i, info, yielded, fixedDur, sameRuns, stillFrom, caughtUp>>

\* Unregister: sched_free_task(task)
Unregister ==
    \E t \in LiveTasks \cup {NULL} :
        /\ SetHeap(sched_free_task(Heap, t))
        /\ last' = Op("free_task", IF t = NULL THEN NULL ELSE task[t].ctx, t,
                       PositionOf(t), LengthAround(t), NULL)
        /\ UNCHANGED <<now, clockMax, count, sinceTick, boundaries, loop_i, info, yielded, fixedDur, sameRuns, stillFrom, caughtUp>>

\* The time source advances by d units, wrapping after clockMax.
Advance(steps) ==
    \E d \in steps :
        /\ now' = (now + d) % (clockMax + 1)
        /\ last' = Op("advance", NULL, NULL, 0, 0, NULL)
        /\ UNCHANGED <<ctx, task, bad, clockMax, count, sinceTick, boundaries, loop_i, info, yielded, fixedDur, sameRuns, stillFrom, caughtUp>>

\* The time t0 read by a call on context c is behind last_tick_time.
Behind(c, t0) ==
    /\ ctx[c].current_tick /= {}
    /\ tm_get_diff(ctx[c].max_time, t0, ctx[c].last_tick_time) < 0

SetMachine(S, c) ==
    /\ ctx' = S.ctx /\ task' = S.task /\ bad' = S.bad
    /\ now' = S.now /\ count' = S.count
    /\ last' = [op |-> "run", c |-> c, t |-> NULL, a |-> S.t0,
                b |-> IF Behind(c, S.t0) THEN 1 ELSE 0, ret |-> NULL,
                kind |-> S.kind, tick |-> S.tick, ran |-> S.ran, obs |-> S.obs]

\* Drive: sched_run(ctx); each callback takes a time drawn from durs.
Drive(cells, durs) ==
    \E c \in LiveCtx(cells), dur \in [TaskIds -> durs] :
        /\ SetMachine(sched_run(Machine, c, dur), c)
        /\ UNCHANGED <<clockMax, sinceTick, boundaries, loop_i, info, yielded, fixedDur, sameRuns, stillFrom, caughtUp>>

\* Drive while fewer than maxTicks ticks have been serviced; the callbacks of
\* the tasks in tcells take a time drawn from durs, the others none.
BoundedDrive(cells, tcells, durs, maxTicks) ==
    \E c \in LiveCtx(cells), f \in [tcells -> durs] :
        LET dur == [t \in TaskIds |-> IF t \in tcells THEN f[t] ELSE 0]
            S == sched_run(Machine, c, dur)
        IN /\ boundaries < maxTicks
           /\ SetMachine(S, c)
           /\ boundaries' = IF S.kind = "tick" THEN boundaries + 1 ELSE boundaries
           /\ UNCHANGED <<clockMax, sinceTick, loop_i, info, yielded, fixedDur, sameRuns, stillFrom, caughtUp>>

\* No traversal is under way: the caller may change the list.
NoTraversal == yielded = <<>> /\ info.iter = NULL

\* sched_get_first_task_info on a context or on NULL, with the caller's info
\* structure or with NULL for it; yielded restarts with the task reported.
GetFirst(cells) ==
    \E c \in LiveCtx(cells) \cup {NULL}, hasInfo \in BOOLEAN :
        LET r == sched_get_first_task_info(Heap, c, info, hasInfo)
        IN /\ info' = r.info
           /\ yielded' = IF r.success THEN <<r.info.name>> ELSE <<>>
           /\ last' = Op("get_first", c, NULL, IF hasInfo THEN 1 ELSE 0, 0, r.success)
           /\ UNCHANGED <<ctx, task, bad, now, clockMax, count, sinceTick,
                          boundaries, loop_i, fixedDur, sameRuns, stillFrom, caughtUp>>

\* sched_get_next_task_info on the caller's info structure or on NULL; the
\* task reported joins yielded, and a traversal that ends leaves it empty.
GetNext ==
    \E hasInfo \in BOOLEAN :
        LET r == sched_get_next_task_info(Heap, info, hasInfo)
        IN /\ info' = r.info
           /\ yielded' = IF r.success /\ yielded /= <<>>
                         THEN Append(yielded, r.info.name)
                         ELSE IF hasInfo THEN <<>> ELSE yielded
           /\ last' = Op("get_next", NULL, NULL, IF hasInfo THEN 1 ELSE 0, 0, r.success)
           /\ UNCHANGED <<ctx, task, bad, now, clockMax, count, sinceTick,
                          boundaries, loop_i, fixedDur, sameRuns, stillFrom, caughtUp>>

\* The caller sleeps while the clock runs on, and calls sched_reset on waking.
Wake(cells, steps) ==
    \E c \in LiveCtx(cells), d \in steps :
        /\ SetHeap(sched_reset(Heap, c))
        /\ now' = (now + d) % (clockMax + 1)
        /\ last' = Op("wake", c, NULL, 0, 0, NULL)
        /\ UNCHANGED <<clockMax, count, sinceTick, boundaries, loop_i, info, yielded,
                       fixedDur, sameRuns, stillFrom, caughtUp>>

NoDur == [t \in TaskIds |-> 0]

\* The clock moves; stillFrom keeps the last_tick_time it moved away from
\* when ticks have been serviced, and the count of ticks starts again.
StillAdvance(cells, steps) ==
    \E d \in steps :
        LET started == {c \in LiveCtx(cells) : ctx[c].current_tick /= {}}
        IN /\ now' = (now + d) % (clockMax + 1)
           /\ last' = Op("advance", NULL, NULL, 0, 0, NULL)
           /\ stillFrom' = IF started = {} THEN -1
                           ELSE ctx[CHOOSE c \in started : TRUE].last_tick_time
           /\ caughtUp' = 0
           /\ UNCHANGED <<ctx, task, bad, clockMax, count, sinceTick, boundaries,
                          loop_i, info, yielded, fixedDur, sameRuns>>

\* sched_run with callbacks that take no time, so that the clock stands
\* still; a call that sets last_tick_time to the time read starts the count
\* of ticks again from there.
StillDrive(cells) ==
    \E c \in LiveCtx(cells) :
        LET S == sched_run(Machine, c, NoDur)
            restart == ctx[c].current_tick = {} \/ Behind(c, now)
        IN /\ SetMachine(S, c)
           /\ stillFrom' = IF restart THEN S.ctx[c].last_tick_time ELSE stillFrom
           /\ caughtUp' = IF restart THEN 0
                          ELSE IF S.kind = "tick" THEN caughtUp + 1 ELSE caughtUp
           /\ UNCHANGED <<clockMax, sinceTick, boundaries, loop_i, info, yielded,
                          fixedDur, sameRuns>>

\* ------------------------------------------- general specification
\* One context cell, driven by an arbitrary caller and an arbitrary clock.

MainCtx == {"c1"}
MainTasks == {"t1", "t2"}
MainMasks == {TASK_TICK_IDLE, TASK_TICK_2, {0, WordBits - 1}}

InitWith(clockMaxes, starts) ==
    /\ ctx = [c \in Ctxs |-> NoCtx]
    /\ task = [t \in TaskIds |-> NoTask]
    /\ clockMax \in clockMaxes
    /\ now \in starts
    /\ count = [t \in TaskIds |-> 0]
    /\ last = Op("init", NULL, NULL, 0, 0, NULL)
    /\ bad = FALSE
    /\ sinceTick = 0
    /\ boundaries = 0
    /\ loop_i = -1
    /\ info = NoInfo
    /\ yielded = <<>>
    /\ fixedDur = -1
    /\ sameRuns = 0
    /\ stillFrom = -1
    /\ caughtUp = 0

Init == InitWith({MaxTime}, {0})

Next ==
    \/ Create(MainCtx, {MinMaxTime - 1, clockMax}, 0 .. clockMax)
    \/ Reset(MainCtx)
    \/ ResetStats(MainCtx)
    \/ Register(MainCtx, MainTasks, MainMasks, FALSE)
    \/ Unregister
    \/ Advance(1 .. clockMax)
    \/ Drive(MainCtx, {0})

Spec == Init /\ [][Next]_vars

\* --------------------------------------------- clock specification
\* One context with any valid tick period over a wider time domain, one task
\* cell, and an arbitrary caller and clock.

ClockTasks == {"t1"}
ClockMasks == {TASK_TICK_IDLE, {0, WordBits - 1}}

InitClock == InitWith({ClockMaxTime}, {0})

NextClock ==
    \/ Create(MainCtx, {clockMax}, 1 .. (clockMax \div 2))
    \/ Reset(MainCtx)
    \/ ResetStats(MainCtx)
    \/ Register(MainCtx, ClockTasks, ClockMasks, FALSE)
    \/ Unregister
    \/ Advance(1 .. clockMax)
    \/ Drive(MainCtx, {0})

SpecClock == InitClock /\ [][NextClock]_vars

\* ---------------------------------------------- list specification
\* Two context cells and three task cells, created and destroyed in any
\* order while the clock stands still.

ListMasks == {TASK_TICK_IDLE, TASK_TICK_1}

InitList == InitWith({MinMaxTime}, {0})

NextList ==
    \/ Create(Ctxs, {MinMaxTime - 1, MinMaxTime}, 0 .. 2)
    \/ Destroy(Ctxs)
    \/ Reset(Ctxs)
    \/ Register(Ctxs, TaskIds, ListMasks, FALSE)
    \/ Unregister
    \/ Drive(Ctxs, {0})

SpecList == InitList /\ [][NextList]_vars

\* -------------------------------------------- create specification
\* Create called with every combination of small arguments.

InitCreate == InitWith({CreateMaxTime}, {0})

NextCreate ==
    \/ Create(Ctxs, 0 .. CreateMaxTime, 0 .. CreateMaxTime)
    \/ Destroy(Ctxs)
    \/ Register(Ctxs, ClockTasks, {TASK_TICK_1}, FALSE)

SpecCreate == InitCreate /\ [][NextCreate]_vars

\* ----------------------------------------- unit-step specification
\* The time source advances by exactly one unit before each Drive call and
\* Reset is never called.

\* ++now; sched_run(ctx);
UnitDrive(cells) ==
    \E c \in LiveCtx(cells) :
        LET S == sched_run(MachineAt((now + 1) % (clockMax + 1)), c, NoDur)
        IN /\ boundaries < MaxBoundaries
           /\ SetMachine(S, c)
           /\ sinceTick' = IF S.kind = "tick" THEN 0 ELSE sinceTick + 1
           /\ boundaries' = IF S.kind = "tick" THEN boundaries + 1 ELSE boundaries
           /\ UNCHANGED <<clockMax, loop_i, info, yielded, fixedDur, sameRuns, stillFrom, caughtUp>>

RegisterBeforeRun(cells, tcells, masks, counted) ==
    /\ \A c \in cells : ctx[c].current_tick = {}
    /\ loop_i = -1
    /\ Register(cells, tcells, masks, counted)

InitUnit == InitWith({UnitMaxTime}, 0 .. UnitMaxTime)

NextUnit ==
    \/ Create(MainCtx, {clockMax}, 1 .. (clockMax \div 2))
    \/ RegisterBeforeRun(MainCtx, ClockTasks, ClockMasks, FALSE)
    \/ UnitDrive(MainCtx)

SpecUnit == InitUnit /\ [][NextUnit]_vars

\* ------------------------------------------- unit-test specification
\* test/sched_ut.c, describe("The scheduler"): a context with max_time 255
\* and tick_period 1, tasks with standard masks that count their calls, 32
\* iterations of { ++now; sched_run(ctx); } and then one more sched_run(ctx).

TestCtx == LiveCtx(MainCtx)

TestStart ==
    /\ loop_i = -1
    /\ TestCtx /= {}
    /\ loop_i' = 0
    /\ last' = Op("loop", NULL, NULL, 0, 0, NULL)
    /\ UNCHANGED <<ctx, task, now, clockMax, count, bad, sinceTick, boundaries,
                   info, yielded, fixedDur, sameRuns, stillFrom, caughtUp>>

TestLoop ==
    \E c \in TestCtx :
        /\ loop_i >= 0 /\ loop_i < TestLoops
        /\ SetMachine(sched_run(MachineAt((now + 1) % (clockMax + 1)),
                                c, NoDur), c)
        /\ loop_i' = loop_i + 1
        /\ UNCHANGED <<clockMax, sinceTick, boundaries, info, yielded, fixedDur, sameRuns, stillFrom, caughtUp>>

TestIdle ==
    \E c \in TestCtx :
        /\ loop_i = TestLoops
        /\ SetMachine(sched_run(Machine, c, NoDur), c)
        /\ loop_i' = loop_i + 1
        /\ UNCHANGED <<clockMax, sinceTick, boundaries, info, yielded, fixedDur, sameRuns, stillFrom, caughtUp>>

InitTest == InitWith({TestMaxTime}, {0})

NextTest ==
    \/ Create(MainCtx, {TestMaxTime}, {TestTickPeriod})
    \/ RegisterBeforeRun(MainCtx, TaskIds, StandardMasks, TRUE)
    \/ TestStart
    \/ TestLoop
    \/ TestIdle

SpecTest == InitTest /\ [][NextTest]_vars


\* ---------------------------------------- statistics specification
\* One context and one task cell; every callback takes any time the clock
\* can show, so that measured execution times of both signs occur.

InitStats == InitWith({StatsMaxTime}, {0})

NextStats ==
    \/ Create(MainCtx, {clockMax}, {1, 2})
    \/ Register(MainCtx, ClockTasks, ListMasks, FALSE)
    \/ Unregister
    \/ ResetStats(MainCtx)
    \/ BoundedDrive(MainCtx, ClockTasks, 0 .. clockMax, StatsTicks)

SpecStats == InitStats /\ [][NextStats]_vars


\* ------------------------------------ constant-time specification
\* An idle task whose callback takes any time at first and, from some call
\* on, the same time fixedDur on every call.

InitConst == InitWith({ConstMaxTime}, {0})

\* The execution times that are measured non-negative.
ConstDurs == 0 .. ((clockMax + 1) \div 2)

\* From now on the callback of the registered task takes time d.
Fix(durs) ==
    \E d \in durs, c \in LiveCtx(MainCtx) :
        /\ fixedDur = -1
        /\ ListOf(c) /= <<>>
        /\ fixedDur' = d
        /\ UNCHANGED <<ctx, task, now, clockMax, count, last, bad, sinceTick,
                       boundaries, loop_i, info, yielded, sameRuns, stillFrom, caughtUp>>

ConstDrive ==
    \E c \in LiveCtx(MainCtx) :
        /\ fixedDur >= 0
        /\ LET S == sched_run(Machine, c, [t \in TaskIds |-> fixedDur])
           IN /\ SetMachine(S, c)
              /\ sameRuns' = IF S.ran = <<>> \/ sameRuns = ConstSettle
                              THEN sameRuns
                              ELSE sameRuns + 1
        /\ UNCHANGED <<clockMax, sinceTick, boundaries, loop_i, info, yielded,
                       fixedDur, stillFrom, caughtUp>>

NextConst ==
    \/ /\ fixedDur = -1
       /\ \/ Create(MainCtx, {clockMax}, {1, 2})
          \/ Register(MainCtx, ClockTasks, {TASK_TICK_IDLE}, FALSE)
          \/ BoundedDrive(MainCtx, ClockTasks, ConstDurs, StatsTicks)
    \/ Fix(ConstDurs)
    \/ ConstDrive

SpecConst == InitConst /\ [][NextConst]_vars


\* ------------------------------------------- traversal specification
\* One context with up to three tasks whose callbacks take time, and a
\* caller that walks the list with the task information functions and
\* registers or unregisters only between traversals.

IterDurs == {2}

IterMasks == {TASK_TICK_1}

InitIter == InitWith({MaxTime}, {0})

NextIter ==
    \/ Create(MainCtx, {clockMax}, {1})
    \/ NoTraversal /\ Register(MainCtx, TaskIds, IterMasks, FALSE)
    \/ NoTraversal /\ Unregister
    \/ BoundedDrive(MainCtx, TaskIds, IterDurs, StatsTicks)
    \/ GetFirst(MainCtx)
    \/ GetNext

SpecIter == InitIter /\ [][NextIter]_vars


\* ---------------------------------------- statistics reset specification
\* Two contexts that share three tasks between them; the callbacks take
\* time, so that statistics other than 0 are there to be reset.

InitReset == InitWith({MaxTime}, {0})

NextReset ==
    \/ Create(Ctxs, {clockMax}, {1})
    \/ Register(Ctxs, TaskIds, IterMasks, FALSE)
    \/ ResetStats(Ctxs)
    \/ BoundedDrive(Ctxs, TaskIds, IterDurs, StatsTicks)

SpecReset == InitReset /\ [][NextReset]_vars


\* ------------------------------------------------ sleep specification
\* The loop of the documentation of sched_run with a caller that can always
\* sleep: after the first call, every call of sched_run follows a sleep and
\* a sched_reset. Every callback takes time, so that a task that has been
\* executed has statistics other than 0.

InitSleep == InitWith({MaxTime}, {0})

NextSleep ==
    \/ Create(MainCtx, {clockMax}, {1})
    \/ Register(MainCtx, MainTasks, MainMasks, FALSE)
    \/ Unregister
    \/ Wake(MainCtx, 0 .. clockMax)
    \/ /\ boundaries = 0 \/ last.op = "wake"
       /\ BoundedDrive(MainCtx, MainTasks, IterDurs, StatsTicks)

SpecSleep == InitSleep /\ [][NextSleep]_vars


\* ---------------------------------------------- catch-up specification
\* One context that is never reset, a clock that moves by any amount
\* between the calls of sched_run and stands still during them.

InitCatch == InitWith({CatchMaxTime}, {0})

NextCatch ==
    \/ Create(MainCtx, {clockMax}, 1 .. (clockMax \div 2))
    \/ Register(MainCtx, ClockTasks, ClockMasks, FALSE)
    \/ StillAdvance(MainCtx, 1 .. clockMax)
    \/ StillDrive(MainCtx)

SpecCatch == InitCatch /\ [][NextCatch]_vars

\* ------------------------------------------------------------ claims

AfterRun == last.op = "run"

\* The tasks of the list of c whose mask has a bit in common with tick.
TickDueSet(c, tick) ==
    {t \in Range(ListOf(c)) : (task[t].tick_mask \cap tick) /= {}}

\* The tasks of the list of c whose mask is 0.
IdleSet(c) == {t \in Range(ListOf(c)) : task[t].tick_mask = {}}

\* C1: right after every Drive call, the tasks whose callback the call invoked
\* (each once) are either exactly the linked tasks whose mask meets the
\* current_tick of before the rotation, or exactly the linked tasks whose
\* mask is 0; the call took one of the two decisions.
C1_TickIdleExclusive ==
    AfterRun =>
        LET c == last.c
            ranSet == Range(last.ran)
        IN /\ Len(last.ran) = Cardinality(ranSet)
           /\ \/ /\ last.kind = "tick"
                 /\ ctx[c].current_tick = rot_left_1(last.tick)
                 /\ ranSet = TickDueSet(c, last.tick)
              \/ /\ last.kind = "idle"
                 /\ ctx[c].current_tick = last.tick
                 /\ ranSet = IdleSet(c)

\* A tick call on a list holding an idle task and a due task.
C1_Witness ==
    /\ AfterRun
    /\ last.kind = "tick"
    /\ TickDueSet(last.c, last.tick) /= {}
    /\ IdleSet(last.c) /= {}

\* C2 as stated: every linked task, whatever its mask, is executed by a Drive
\* call iff the call serviced a tick and the mask meets current_tick.
C2_AsStated ==
    AfterRun =>
        \A t \in Range(ListOf(last.c)) :
            (t \in Range(last.ran)) <=>
                (last.kind = "tick" /\ (task[t].tick_mask \cap last.tick) /= {})

\* C2 (amended): a linked task with a nonzero mask is executed by a Drive call
\* iff the call serviced a tick and the mask meets the current_tick of the
\* moment of execution; a linked task with mask 0 is executed iff the call
\* serviced no tick.
C2_MaskMatching ==
    AfterRun =>
        \A t \in Range(ListOf(last.c)) :
            IF task[t].tick_mask /= {}
            THEN (t \in Range(last.ran)) <=>
                     (last.kind = "tick" /\ (task[t].tick_mask \cap last.tick) /= {})
            ELSE (t \in Range(last.ran)) <=> (last.kind = "idle")

\* A tick call that ran one task with a nonzero mask and skipped another.
C2_Witness ==
    /\ AfterRun
    /\ last.kind = "tick"
    /\ \E t, u \in Range(ListOf(last.c)) :
          /\ task[t].tick_mask /= {} /\ t \in Range(last.ran)
          /\ task[u].tick_mask /= {} /\ u \notin Range(last.ran)

\* The slot after n serviced ticks, and the count of idle calls since the last.
C3_SlotOfBoundaries ==
    \A c \in MainCtx :
        ctx[c].live =>
            /\ sinceTick < ctx[c].tick_period
            /\ boundaries > 0 => ctx[c].current_tick = {boundaries % WordBits}

\* What one Drive call of the unit-step driver does to slot and counters.
C3_StepOfRotation ==
    (last'.op = "run") =>
        LET c == last'.c
        IN IF last'.kind = "tick"
           THEN /\ boundaries = 0 \/ sinceTick = ctx[c].tick_period - 1
                /\ boundaries' = boundaries + 1
                /\ \E k \in Bits : /\ last'.tick = {k}
                                   /\ ctx'[c].current_tick = {(k + 1) % WordBits}
                /\ boundaries > 0 => last'.tick = ctx[c].current_tick
           ELSE /\ sinceTick' = sinceTick + 1
                /\ ctx'[c].current_tick = ctx[c].current_tick

\* C3: with the clock advancing by one unit before each Drive call and no
\* Reset, a tick is serviced on the first call and then on exactly every
\* tick_period-th call; each serviced tick moves the one set bit of
\* current_tick left by one position, bit 31 wrapping to bit 0, so that after
\* n serviced ticks the bit set is bit n mod 32.
C3_Rotation == [](C3_SlotOfBoundaries) /\ [][C3_StepOfRotation]_vars

\* 33 ticks of a context with tick_period 3 have been serviced, the last one
\* when the clock had wrapped to 0: the bit is back at bit 1.
C3_Witness ==
    \E c \in MainCtx :
        /\ ctx[c].live /\ ctx[c].tick_period = 3
        /\ boundaries = WordBits + 1
        /\ ctx[c].current_tick = {1}
        /\ last.op = "run" /\ last.kind = "tick" /\ now = 0

\* The call counts the unit test asserts after its 32 iterations.
TestExpected(mask) ==
    CASE mask = TASK_TICK_IDLE -> 0
      [] mask = TASK_TICK_1 -> 32
      [] mask = TASK_TICK_2 -> 16
      [] mask = TASK_TICK_4 -> 8
      [] mask = TASK_TICK_8 -> 4
      [] mask = TASK_TICK_16 -> 2
      [] mask = TASK_TICK_32 -> 1

\* C4: in the unit test, after the 32 iterations every task has been called
\* popcount(mask) times (32, 16, 8, 4, 2, 1 for TASK_TICK_1 .. _32, 0 for an
\* idle task); the one further Drive call without a time advance calls every
\* idle task once and no other task.
C4_TestCounts ==
    \A c \in MainCtx : \A t \in Range(ListOf(c)) :
        /\ loop_i = TestLoops =>
              /\ count[t] = Cardinality(task[t].tick_mask)
              /\ count[t] = TestExpected(task[t].tick_mask)
        /\ loop_i = TestLoops + 1 =>
              count[t] = TestExpected(task[t].tick_mask)
                         + (IF task[t].tick_mask = {} THEN 1 ELSE 0)

\* The test has ended with an idle task, a TASK_TICK_2 and a TASK_TICK_32
\* task registered.
C4_Witness ==
    \E c \in MainCtx :
        /\ loop_i = TestLoops + 1
        /\ {task[t].tick_mask : t \in Range(ListOf(c))}
               = {TASK_TICK_IDLE, TASK_TICK_2, TASK_TICK_32}

\* current_tick has at most one bit set.
C5_AtMostOneBit ==
    \A c \in Ctxs : ctx[c].live => Cardinality(ctx[c].current_tick) <= 1

\* A step that leaves current_tick 0 is a Create, a Reset, or a step other
\* than a Drive from a state where it was 0 already.
C5_ZeroOnlyWhenFresh ==
    \A c \in Ctxs :
        (ctx'[c].live /\ ctx'[c].current_tick = {}) =>
            \/ last'.op = "alloc_context" /\ last'.ret = c
            \/ last'.op = "reset"
            \/ /\ ctx[c].live /\ ctx[c].current_tick = {}
               /\ ~(last'.op = "run" /\ last'.c = c)

\* C5: current_tick of a context is 0 or has exactly one bit set, and it is 0
\* only from Create to the first Drive and from a Reset to the next Drive.
C5_OneHotTick == [](C5_AtMostOneBit) /\ [][C5_ZeroOnlyWhenFresh]_vars

\* The slot has reached bit 31 by a serviced tick.
C5_Witness ==
    \E c \in Ctxs :
        /\ ctx[c].live /\ ctx[c].current_tick = {WordBits - 1}
        /\ AfterRun /\ last.kind = "tick"

\* C6: Create returns no context when max_time < 4, tick_period < 1 or
\* tick_period >= max_time/2; every live context has max_time >= 4 and
\* 1 <= tick_period < max_time/2; a context just created has current_tick 0,
\* last_tick_time 0, the given tick_period and an empty list.
C6_CreateValidates ==
    /\ (last.op = "alloc_context"
        /\ (last.a < 4 \/ last.b < 1 \/ 2 * last.b >= last.a)) => last.ret = NULL
    /\ \A c \in Ctxs :
          ctx[c].live =>
              /\ ctx[c].max_time >= 4
              /\ 1 <= ctx[c].tick_period
              /\ 2 * ctx[c].tick_period < ctx[c].max_time
    /\ (last.op = "alloc_context" /\ last.ret /= NULL) =>
          ctx[last.ret] = [live |-> TRUE, current_tick |-> {}, last_tick_time |-> 0,
                           tick_period |-> last.b, max_time |-> last.a, root |-> NULL]

\* Create(max_time = 6, tick_period = 3) has returned NULL while another
\* context exists.
C6_Witness ==
    /\ last.op = "alloc_context" /\ last.a = 6 /\ last.b = 3 /\ last.ret = NULL
    /\ \E c \in Ctxs : ctx[c].live /\ ctx[c].tick_period = 2

\* What a Drive call does from current_tick 0 and from slot 2 within a period.
C7_FreshStep ==
    (last'.op = "run") =>
        LET c == last'.c
            elapsed == tm_get_diff(ctx[c].max_time, now, ctx[c].last_tick_time)
        IN /\ ctx[c].current_tick = {} =>
                /\ last'.kind = "tick"
                /\ last'.tick = {0}
                /\ ctx'[c].last_tick_time = now
                /\ ctx'[c].current_tick = {1}
                /\ Range(last'.ran) = {t \in Range(ListOf(c)) : 0 \in task[t].tick_mask}
           /\ (ctx[c].current_tick = {1} /\ elapsed >= 0 /\ elapsed < ctx[c].tick_period) =>
                /\ last'.kind = "idle"
                /\ Range(last'.ran) = IdleSet(c)
                /\ ctx'[c].last_tick_time = ctx[c].last_tick_time
                /\ ctx'[c].current_tick = {1}

\* C7: a Drive call on a context whose current_tick is 0 (the first call, or
\* the first after a Reset) services a tick whatever the clock says: it sets
\* last_tick_time to now, executes the tasks whose mask has bit 0 and leaves
\* current_tick = 2; a Drive call in slot 2 with less than tick_period
\* elapsed since last_tick_time runs the idle set and moves nothing.
C7_FirstDriveTicks == [][C7_FreshStep]_vars

\* An idle call in slot 2, one unit after the tick that started at a clock
\* value other than 0, of a context with tick_period 3.
C7_Witness ==
    /\ AfterRun /\ last.kind = "idle" /\ last.tick = {1}
    /\ ctx[last.c].tick_period = 3
    /\ ctx[last.c].last_tick_time /= 0
    /\ tm_get_diff(ctx[last.c].max_time, now, ctx[last.c].last_tick_time) = 1
    /\ last.ran /= <<>>

\* s without the element t.
Without(s, t) == LET Keep(x) == x /= t IN SelectSeq(s, Keep)

\* The elements of s that are in the set K, in the order of s.
Restrict(s, K) == LET Keep(x) == x \in K IN SelectSeq(s, Keep)

\* What a step does to the lists, by the operation it performs.
C8_RegisterStep ==
    /\ (last'.op = "alloc_task" /\ last'.ret /= NULL) =>
          \E c \in Ctxs :
              /\ ListOf(c)' = Append(ListOf(c), last'.ret)
              /\ \A d \in Ctxs \ {c} : ListOf(d)' = ListOf(d)
    /\ (last'.op \notin {"alloc_task", "free_task", "free_context"}) =>
          \A c \in Ctxs : ListOf(c)' = ListOf(c)

\* The callbacks of the last Drive call were invoked in list order.
C8_RunInListOrder ==
    AfterRun => last.ran = Restrict(ListOf(last.c), Range(last.ran))

\* C8: Register appends the new task at the end of the list of its context
\* and touches no other list; no operation but Register, Unregister and
\* Destroy changes a list; the callbacks a Drive call invokes are invoked
\* in list order.
C8_RegistrationOrder == [](C8_RunInListOrder) /\ [][C8_RegisterStep]_vars

\* A tick call on the list t3, t1, t2 has invoked t3 and then t2.
C8_Witness ==
    /\ AfterRun
    /\ ListOf(last.c) = <<"t3", "t1", "t2">>
    /\ last.ran = <<"t3", "t2">>

\* What sched_free_context does to the context and to every task.
C9_DestroyStep ==
    (last'.op = "free_context" /\ last'.c /= NULL) =>
        LET c == last'.c
        IN /\ ~ctx'[c].live
           /\ \A t \in TaskIds :
                 task[t].live =>
                     IF t \in Range(ListOf(c))
                     THEN /\ task'[t].live
                          /\ task'[t].ctx = NULL
                          /\ task'[t].next = NULL
                          /\ task'[t].tick_mask = task[t].tick_mask
                     ELSE task'[t] = task[t]

\* No freed cell has been used, and no pointer leads to one.
C9_NoFreedCellUsed ==
    /\ ~bad
    /\ \A t \in TaskIds :
          task[t].live =>
              /\ task[t].ctx /= NULL => ctx[task[t].ctx].live
              /\ task[t].next /= NULL => task[task[t].next].live
    /\ \A c \in Ctxs :
          (ctx[c].live /\ ctx[c].root /= NULL) => task[ctx[c].root].live

\* C9: Destroy frees the context and leaves every task that was in its list
\* allocated, with no context and no successor, and every other task as it
\* was; no task or context ever points to a freed cell, and no operation
\* (an Unregister after the Destroy included) reads or writes a freed cell.
C9_DestroyBeforeTasks == [](C9_NoFreedCellUsed) /\ [][C9_DestroyStep]_vars

\* A task orphaned by Destroy has been unregistered while another orphan is
\* still allocated and no context exists.
C9_Witness ==
    /\ last.op = "free_task" /\ last.t /= NULL /\ last.c = NULL
    /\ \E u \in TaskIds : task[u].live /\ task[u].ctx = NULL
    /\ \A c \in Ctxs : ~ctx[c].live

\* What sched_free_task does to the lists.
C10_UnregisterStep ==
    (last'.op = "free_task" /\ last'.t /= NULL) =>
        /\ ~task'[last'.t].live
        /\ \A c \in Ctxs : ListOf(c)' = Without(ListOf(c), last'.t)
        /\ last'.c = NULL => \A c \in Ctxs : ListOf(c)' = ListOf(c)

\* Every list is a repetition-free chain of the tasks of its context.
C10_ListShape ==
    \A c \in Ctxs :
        LET L == ListOf(c)
        IN /\ Len(L) = Cardinality(Range(L))
           /\ Len(L) <= Cardinality(TaskIds)
           /\ \A t \in Range(L) : task[t].live /\ task[t].ctx = c
           /\ \A t \in TaskIds : (task[t].live /\ task[t].ctx = c) => t \in Range(L)
           /\ \A d \in Ctxs \ {c} : Range(L) \cap Range(ListOf(d)) = {}

\* C10: Unregister of a task removes exactly that task from the list it is
\* in and keeps the order of the others, and changes no list when the task
\* is in none; every list is free of repetitions and cycles, holds exactly
\* the allocated tasks whose context it is, and so no task is in two lists.
C10_UnlinkExact == [](C10_ListShape) /\ [][C10_UnregisterStep]_vars

\* The middle task of a list of three has been unregistered.
C10_Witness ==
    /\ last.op = "free_task" /\ last.t /= NULL
    /\ last.a = 2 /\ last.b = 3
    /\ Len(ListOf(last.c)) = 2

\* Task t was executed by the call that l records.
RanIn(l, t) == l.op = "run" /\ t \in Range(l.ran)

\* The execution time that call measured for task t.
ObsOf(l, t) == l.obs[CHOOSE i \in 1 .. Len(l.ran) : l.ran[i] = t]

\* The tasks that stay allocated over a step.
Staying == {t \in TaskIds : task[t].live /\ task'[t].live}

\* What each step does to the largest execution time of a task.
C11_MaxStep ==
    /\ \A t \in Staying :
          task'[t].max_time =
              IF last'.op = "reset_stats" /\ task[t].ctx = last'.c /\ last'.c /= NULL
              THEN 0
              ELSE IF RanIn(last', t) /\ ObsOf(last', t) > task[t].max_time
                   THEN ObsOf(last', t)
                   ELSE task[t].max_time
    /\ \A t \in TaskIds : (~task[t].live /\ task'[t].live) => task'[t].max_time = 0

\* C11: max_time of a task is the largest non-negative execution time
\* measured since its registration or the last reset of statistics (0 when
\* there is none): it starts at 0, an execution raises it to the measured
\* time exactly when that time is greater, and only a reset lowers it.
C11_MaxObserved == [][C11_MaxStep]_vars

\* An execution measured less than the maximum, which stays above it.
C11_Witness ==
    /\ AfterRun
    /\ \E t \in Range(last.ran) :
          /\ ObsOf(last, t) > 0
          /\ task[t].max_time > ObsOf(last, t)

\* The average falls over a step only by a reset of statistics.
C12_FallsOnlyByReset ==
    \A t \in Staying :
        task'[t].average_time < task[t].average_time => last'.op = "reset_stats"

\* The statement of the specification: average_time never decreases except
\* by a reset of statistics.
C12_AsStated == [][C12_FallsOnlyByReset]_vars

\* When the average falls and when it does not.
C12_AverageStep ==
    \A t \in Staying :
        /\ task'[t].average_time < task[t].average_time =>
              \/ last'.op = "reset_stats"
              \/ /\ RanIn(last', t)
                 /\ ObsOf(last', t) >= 0
                 /\ ObsOf(last', t) < task[t].average_time
        /\ (RanIn(last', t) /\ ObsOf(last', t) >= task[t].average_time) =>
              /\ task'[t].average_time >= task[t].average_time
              /\ task'[t].average_time <= ObsOf(last', t)
        /\ task'[t].max_time < task[t].max_time => last'.op = "reset_stats"

\* C12: average_time falls only by a reset of statistics or by an execution
\* measured non-negative and below the average; an execution measured at or
\* above the average does not lower it and does not lift it above the
\* measured time; max_time falls only by a reset of statistics.
C12_AverageMoves == [][C12_AverageStep]_vars

\* An execution measured below the average has lowered the average.
C12_Witness ==
    /\ AfterRun
    /\ \E t \in Range(last.ran) :
          /\ ObsOf(last, t) >= 0
          /\ task[t].average_time > ObsOf(last, t)
          /\ task[t].max_time > task[t].average_time

\* What an execution does to the statistics of the task.
C19_StatsStep ==
    \A t \in Staying :
        RanIn(last', t) =>
            IF ObsOf(last', t) >= 0
            THEN task'[t].average_time =
                     (task[t].average_time + ObsOf(last', t)) \div 2
            ELSE /\ task'[t].average_time = task[t].average_time
                 /\ task'[t].max_time = task[t].max_time

\* C19: an execution measured non-negative sets average_time to the floor of
\* half the sum of the old average and the measured time; an execution
\* measured negative leaves average_time and max_time as they were.
C19_HalvingAverage == [][C19_StatsStep]_vars

\* An execution measured negative has left statistics other than 0 alone.
C19_Witness ==
    /\ AfterRun
    /\ \E t \in Range(last.ran) :
          /\ ObsOf(last, t) < 0
          /\ task[t].average_time > 0
          /\ task[t].max_time > task[t].average_time

\* The tasks that have been executed ConstSettle times or more in a row, each
\* time with the measured time fixedDur.
Settled ==
    IF fixedDur >= 0 /\ sameRuns = ConstSettle
    THEN UNION {Range(ListOf(c)) : c \in LiveCtx(MainCtx)}
    ELSE {}

\* The statement of the specification: a task executed again and again with
\* the same measured time has that time as its average once the halving has
\* come to rest.
C13_AsStated == \A t \in Settled : task[t].average_time = fixedDur

\* The average at rest is the measured time or one below it.
C13_AtRest ==
    \A t \in Settled :
        \/ task[t].average_time = fixedDur
        \/ task[t].average_time = fixedDur - 1

\* An execution with the constant measured time keeps the average on its
\* side of that time, and leaves an average at rest where it is.
C13_ConstStep ==
    \A t \in Staying :
        (fixedDur >= 0 /\ fixedDur' = fixedDur /\ RanIn(last', t)) =>
            /\ (task[t].average_time >= fixedDur) = (task'[t].average_time >= fixedDur)
            /\ t \in Settled => task'[t].average_time = task[t].average_time

\* C13: a task executed again and again with the same measured time T has,
\* from some call on and for good, the average T when its average was at
\* least T, and the average T - 1 when its average was below T: the halving
\* rounds down, so an average below T stops one short of T.
C13_SettlesWithinOne == [](C13_AtRest) /\ [][C13_ConstStep]_vars

\* The average has come to rest one below a constant measured time.
C13_Witness ==
    /\ fixedDur >= 2
    /\ AfterRun
    /\ \E t \in Settled \cap Range(last.ran) :
          /\ ObsOf(last, t) = fixedDur
          /\ task[t].average_time = fixedDur - 1
          /\ task[t].max_time = fixedDur

\* The time between last_tick_time and the time a call on context c reads.
DeltaOf(c, t0) == tm_get_diff(ctx[c].max_time, t0, ctx[c].last_tick_time)

\* C14: each serviced tick rotates the one set bit of current_tick right by
\* one position: after the slot with bit k, the slot with bit (k - 1) mod 32.
C14_RotatesRight ==
    [][(last'.op = "run" /\ last'.kind = "tick") =>
          \E k \in Bits :
              /\ last'.tick = {k}
              /\ ctx'[last'.c].current_tick = {(k + WordBits - 1) % WordBits}]_vars

\* What a Drive call does when the clock is at or ahead of last_tick_time.
C17_PeriodStep ==
    (last'.op = "run" /\ ctx[last'.c].current_tick /= {}) =>
        LET c == last'.c
            delta == DeltaOf(c, last'.a)
        IN /\ delta >= ctx[c].tick_period =>
                /\ last'.kind = "tick"
                /\ last'.tick = ctx[c].current_tick
                /\ ctx'[c].last_tick_time =
                       (ctx[c].last_tick_time + ctx[c].tick_period) % (ctx[c].max_time + 1)
           /\ (delta >= 0 /\ delta < ctx[c].tick_period) =>
                /\ last'.kind = "idle"
                /\ ctx'[c].last_tick_time = ctx[c].last_tick_time
                /\ ctx'[c].current_tick = ctx[c].current_tick

\* C17: a Drive call in a slot other than 0 that finds tick_period or more
\* elapsed services a tick and moves last_tick_time on by exactly
\* tick_period modulo max_time + 1, not to the time read, also when two or
\* more periods have elapsed; a call that finds less than tick_period
\* elapsed services no tick and leaves last_tick_time and current_tick.
C17_OnePeriodPerTick == [][C17_PeriodStep]_vars

\* A tick was serviced with two periods or more elapsed, last_tick_time
\* wrapped past max_time and is still a period or more behind the clock.
C17_Witness ==
    /\ AfterRun /\ last.kind = "tick" /\ last.b = 0
    /\ last.tick /= {0}
    /\ ctx[last.c].last_tick_time < ctx[last.c].tick_period
    /\ DeltaOf(last.c, last.a) >= ctx[last.c].tick_period

\* What a Drive call does when the clock is behind last_tick_time.
C18_ResyncStep ==
    (last'.op = "run" /\ ctx[last'.c].current_tick /= {}) =>
        LET c == last'.c
        IN DeltaOf(c, last'.a) < 0 =>
              /\ last'.kind = "tick"
              /\ last'.tick = ctx[c].current_tick
              /\ ctx'[c].last_tick_time = last'.a
              /\ \E k \in Bits :
                    /\ ctx[c].current_tick = {k}
                    /\ ctx'[c].current_tick = {(k + 1) % WordBits}

\* C18: a Drive call in a slot other than 0 that reads a time behind
\* last_tick_time sets last_tick_time to the time read, services a tick
\* for the current slot and moves the bit of current_tick left by one as
\* any tick does; current_tick is not put back to 0 or to bit 0.
C18_ResyncKeepsSlot == [][C18_ResyncStep]_vars

\* A tick serviced in slot 4 because the clock was behind last_tick_time.
C18_Witness ==
    /\ AfterRun /\ last.kind = "tick" /\ last.b = 1
    /\ last.tick = {2}
    /\ ctx[last.c].current_tick = {3}
    /\ ctx[last.c].last_tick_time = last.a

\* C20: right after every Drive call, last_tick_time is not ahead of the
\* time that call read (their difference is not negative), and after a call
\* that ran the idle set it is less than tick_period behind it.
C20_NeverAhead ==
    AfterRun =>
        /\ DeltaOf(last.c, last.a) >= 0
        /\ last.kind = "idle" => DeltaOf(last.c, last.a) < ctx[last.c].tick_period

\* An idle call that left last_tick_time behind the clock, after a wrap.
C20_Witness ==
    /\ AfterRun /\ last.kind = "idle"
    /\ DeltaOf(last.c, last.a) > 0
    /\ last.a < ctx[last.c].last_tick_time

\* The context whose list the traversal under way walks.
TraversedCtx == task[yielded[1]].ctx

\* The information structure holds what task t has now.
Reports(inf, t, tk) ==
    /\ inf.name = t
    /\ inf.average_time = tk[t].average_time
    /\ inf.max_time = tk[t].max_time

\* A traversal under way has reported a beginning of the list, in order,
\* and the information structure points at the task that follows.
C15_InProgress ==
    yielded /= <<>> =>
        LET L == ListOf(TraversedCtx)
            n == Len(yielded)
        IN /\ n <= Len(L)
           /\ yielded = SubSeq(L, 1, n)
           /\ info.name = L[n]
           /\ info.iter = IF n < Len(L) THEN L[n + 1] ELSE NULL

\* What the two task information calls report.
C15_InfoStep ==
    /\ (last'.op = "get_first") =>
          LET c == last'.c
          IN IF c = NULL \/ last'.a = 0 \/ ListOf(c) = <<>>
             THEN ~last'.ret /\ info' = info /\ yielded' = <<>>
             ELSE /\ last'.ret
                  /\ Reports(info', Head(ListOf(c)), task)
                  /\ yielded' = <<Head(ListOf(c))>>
    /\ (last'.op = "get_next" /\ last'.a = 1 /\ yielded /= <<>>) =>
          LET L == ListOf(TraversedCtx)
              n == Len(yielded)
          IN IF n < Len(L)
             THEN /\ last'.ret
                  /\ Reports(info', L[n + 1], task)
                  /\ yielded' = Append(yielded, L[n + 1])
             ELSE /\ ~last'.ret
                  /\ yielded = L
                  /\ Cardinality(Range(yielded)) = Len(L)
                  /\ Range(yielded) = {t \in TaskIds : task[t].live /\ task[t].ctx = TraversedCtx}
                  /\ info' = info

\* C15: with no Register or Unregister during the traversal, the first-task
\* call followed by next-task calls reports every registered task once, in
\* list order, each with the average_time and max_time the task has at that
\* call, and then reports not found; the first-task call reports not found
\* when the list is empty or the context is NULL.
C15_TraversalInOrder == [](C15_InProgress) /\ [][C15_InfoStep]_vars

\* Not found after the third task of a list that is not in the order of the
\* cells, the statistics reported last being other than 0.
C15_Witness ==
    /\ last.op = "get_next" /\ last.a = 1 /\ ~last.ret
    /\ \E c \in MainCtx :
          /\ Len(ListOf(c)) = 3
          /\ ListOf(c)[1] = "t3"
          /\ info.name = ListOf(c)[3]
    /\ info.iter = NULL
    /\ info.average_time = 1 /\ info.max_time = 2

\* What sched_reset_stats changes and what it leaves.
C16_ResetStep ==
    (last'.op = "reset_stats") =>
        LET c == last'.c
            linked == IF c = NULL THEN {} ELSE Range(ListOf(c))
        IN /\ \A t \in TaskIds :
                 task'[t] = IF t \in linked
                            THEN [task[t] EXCEPT !.average_time = 0, !.max_time = 0]
                            ELSE task[t]
           /\ ctx' = ctx
           /\ \A d \in Ctxs : ListOf(d)' = ListOf(d)
           /\ now' = now

\* C16: a reset of statistics sets average_time and max_time of every task
\* linked in the context to 0 and changes nothing else: not the lists, not
\* the masks, not current_tick, last_tick_time or tick_period, and no task
\* of another context.
C16_ResetOnlyStats == [][C16_ResetStep]_vars

\* A reset has cleared the two tasks of one context, after a tick; the task
\* of the other context keeps its statistics.
C16_Witness ==
    /\ last.op = "reset_stats" /\ last.c /= NULL
    /\ Len(ListOf(last.c)) = 2
    /\ ctx[last.c].current_tick /= {}
    /\ \A t \in Range(ListOf(last.c)) : task[t].max_time = 0
    /\ \E t \in TaskIds :
          /\ task[t].live /\ task[t].ctx /= last.c
          /\ task[t].average_time = 1 /\ task[t].max_time = 2

\* The largest execution time a context with this max_time measures as
\* non-negative: half of the values of the time source. For a 32-bit time
\* source it is no more than the largest signed 32-bit value.
ObsTop(max_time) == (max_time + 1) \div 2

\* The average is no more than the maximum, and the maximum no more than
\* the largest time that can be measured.
C23_Ordered ==
    \A t \in TaskIds :
        /\ task[t].average_time >= 0
        /\ task[t].average_time <= task[t].max_time
        /\ (task[t].live /\ task[t].ctx /= NULL) =>
              task[t].max_time <= ObsTop(ctx[task[t].ctx].max_time)

\* The sum that an execution halves is no more than twice the largest time
\* that can be measured, which is less than 2^32 for a 32-bit time source.
C23_SumStep ==
    \A t \in Staying :
        (RanIn(last', t) /\ ObsOf(last', t) >= 0) =>
            /\ ObsOf(last', t) <= ObsTop(ctx[last'.c].max_time)
            /\ task[t].average_time + ObsOf(last', t)
                   <= 2 * ObsTop(ctx[last'.c].max_time)

\* C23: in every state every task has average_time <= max_time, and the sum
\* average_time + measured time that an execution forms stays within the
\* word: neither term is more than the largest time that can be measured
\* as non-negative, which fits a signed 32-bit value.
C23_AverageWithinMax == [](C23_Ordered) /\ [][C23_SumStep]_vars

\* The largest time that can be measured has been measured again and again:
\* the maximum is that time and the average has come to rest one below it.
C23_Witness ==
    /\ AfterRun
    /\ \E t \in Range(last.ran) :
          /\ ObsOf(last, t) = ObsTop(ctx[last.c].max_time)
          /\ task[t].max_time = ObsTop(ctx[last.c].max_time)
          /\ task[t].average_time = task[t].max_time - 1
          /\ task[t].average_time >= 2

\* A Drive call that follows a reset of its context executes the tasks
\* whose mask has bit 0, and no other.
C22_WakeStep ==
    (last'.op = "run" /\ last.op = "wake" /\ last.c = last'.c) =>
        /\ last'.kind = "tick"
        /\ last'.tick = {0}
        /\ Range(last'.ran) =
               {t \in Range(ListOf(last'.c)) : 0 \in task[t].tick_mask}
        /\ Len(last'.ran) = Cardinality(Range(last'.ran))

\* A task whose mask lacks bit 0 has never been executed.
C22_Starved ==
    \A t \in TaskIds :
        (task[t].live /\ 0 \notin task[t].tick_mask) =>
            task[t].average_time = 0 /\ task[t].max_time = 0

\* C22: a Drive call that directly follows a Reset executes exactly the
\* linked tasks whose mask has bit 0; so when a Reset comes between every
\* two Drive calls, a task whose mask lacks bit 0, an idle task (mask 0)
\* among them, is never executed.
C22_OnlyBitZeroAfterReset == [](C22_Starved) /\ [][C22_WakeStep]_vars

\* The third Drive call of such a run has executed a task with bit 0 again;
\* an idle task registered before it has never been executed.
C22_Witness ==
    /\ AfterRun /\ boundaries = StatsTicks
    /\ \E c \in MainCtx :
          /\ Len(ListOf(c)) = 2
          /\ task[ListOf(c)[1]].tick_mask = TASK_TICK_IDLE
          /\ task[ListOf(c)[1]].max_time = 0
          /\ last.ran = <<ListOf(c)[2]>>
          /\ task[ListOf(c)[2]].average_time = 1

\* The contexts whose ticks are counted from stillFrom, with the clock at or
\* ahead of it by no more than half of its values.
CatchingUp ==
    {c \in LiveCtx(MainCtx) :
        /\ ctx[c].current_tick /= {}
        /\ stillFrom >= 0
        /\ tm_get_diff(ctx[c].max_time, now, stillFrom) >= 0}

\* The periods that fit between stillFrom and the standing clock.
MissedPeriods(c) ==
    tm_get_diff(ctx[c].max_time, now, stillFrom) \div ctx[c].tick_period

\* No more ticks are serviced than periods were missed, and an idle call
\* comes only when all of them have been serviced.
C21_Owed ==
    \A c \in CatchingUp :
        /\ caughtUp <= MissedPeriods(c)
        /\ (AfterRun /\ last.kind = "idle") => caughtUp = MissedPeriods(c)

\* What a Drive call does while the clock stands still.
C21_CatchUpStep ==
    \A c \in CatchingUp :
        (last'.op = "run" /\ last'.c = c) =>
            IF caughtUp < MissedPeriods(c)
            THEN /\ last'.kind = "tick"
                 /\ caughtUp' = caughtUp + 1
                 /\ Range(last'.ran) \cap IdleSet(c) = {}
                 /\ ctx'[c].current_tick = rot_left_1(ctx[c].current_tick)
                 /\ ctx'[c].current_tick /= ctx[c].current_tick
            ELSE /\ last'.kind = "idle"
                 /\ caughtUp' = caughtUp
                 /\ Range(last'.ran) = IdleSet(c)
                 /\ ctx'[c].current_tick = ctx[c].current_tick
                 /\ ctx'[c].last_tick_time = ctx[c].last_tick_time

\* C21: without a Reset, missed periods are caught up one per Drive call:
\* when the clock stands still d ahead of last_tick_time after a serviced
\* tick, d not negative, the next floor(d / tick_period) Drive calls each
\* service a tick, moving the slot and running no idle task, and every
\* Drive call after them runs the idle set, until the clock moves.
C21_CatchUpOnePerCall == [](C21_Owed) /\ [][C21_CatchUpStep]_vars

\* The idle set has run after three ticks in a row caught up three missed
\* periods of a context with tick_period 1.
C21_Witness ==
    /\ AfterRun /\ last.kind = "idle"
    /\ last.c \in CatchingUp
    /\ caughtUp = 3
    /\ last.ran /= <<>>
    /\ ctx[last.c].last_tick_time = now

====
